---------------------------- MODULE Spec2Model ----------------------------
(***************************************************************************)
(* Model of banggood_dashboard.py: a Streamlit script whose main() is run  *)
(* from top to bottom on every user interaction.  It loads the products    *)
(* table once per session (cached), filters it by the sidebar widgets and  *)
(* derives KPIs, charts, four top-10 tables and a CSV export from the      *)
(* filtered frame.                                                         *)
(*                                                                         *)
(* Representation.                                                         *)
(*  - A DataFrame is a sequence of rows; every row carries its index label *)
(*    idx (read_sql_query numbers the rows 0, 1, ...; boolean-mask         *)
(*    selection and nlargest keep the labels).                             *)
(*  - Text is a sequence of code points, so that sorted() is the           *)
(*    lexicographic order Python computes for str.                         *)
(*  - price, rating and the ranking columns are integers; a mean is the    *)
(*    exact fraction num/den, and 0/0 stands for NaN, which is what        *)
(*    Series.mean() gives for an empty column.                             *)
(*  - A ".2f" formatted number is its value in hundredths, or nan.         *)
(*  - An optional value (Python None) is a sequence of length 0 or 1.      *)
(***************************************************************************)
EXTENDS Integers, Sequences, FiniteSets, TLC

VARIABLES
    db,             \* rows of the products table in the database
    conn_cache,     \* st.cache_resource entry of init_connection()
    data_cache,     \* st.cache_data entry of load_data()
    summary_cache,  \* st.cache_data entry of load_category_summary()
    widgets,        \* values of the three sidebar widgets, once rendered
    status,         \* how the last run of the script ended
    categories,     \* the options of the category selectbox
    filtered_df,    \* filtered_df of the last run
    passes,         \* how many times the filter was applied to get filtered_df
    metrics,        \* the four st.metric calls of the last run
    tabs,           \* the four top-product tables of the last run
    sections        \* the page sections the last run rendered, in order

vars == <<db, conn_cache, data_cache, summary_cache, widgets, status,
          categories, filtered_df, passes, metrics, tabs, sections>>

---------------------------------------------------------------------------
(* Bounds of the model *)

\* longest products table of the session and of the filter specification
MaxRows == 2

\* longest frame handed to nlargest in the top-N specification
MaxTopRows == 11

---------------------------------------------------------------------------
(* Program constants *)

\* n of the four nlargest calls
TopN == 10

\* bounds and default of the rating slider
RatingMin == 0
RatingMax == 5
RatingDefaultLo == 3
RatingDefaultHi == 5

\* the no-restriction entry of the category selectbox: "All"
All == <<65, 108, 108>>

---------------------------------------------------------------------------
(* Data drawn for the products table *)

\* "Tools", "Toys"
Tools == <<84, 111, 111, 108, 115>>
Toys == <<84, 111, 121, 115>>

Cats == {Tools, Toys}
Prices == {1, 2}
Ratings == {2, 4}
Reviews == {1, 3}

\* the columns of a product, without the index label
ProductRows(scores) ==
    [name : {<<80>>}, category : Cats, price : Prices, rating : Ratings,
     review_count : Reviews, value_score : scores, popularity_index : scores]

\* the products of the session's table; a product rated 2 has one review
Products == {p \in ProductRows({1}) : p.rating = 2 => p.review_count = 1}

Tables(S, lo, hi) == UNION {[1..n -> S] : n \in lo..hi}

\* the frame pd.read_sql_query returns for the rows t: RangeIndex labels 0..n-1
MakeFrame(t) ==
    [i \in 1..Len(t) |->
        [idx |-> i - 1, name |-> t[i].name,
         category |-> t[i].category, price |-> t[i].price,
         rating |-> t[i].rating, review_count |-> t[i].review_count,
         value_score |-> t[i].value_score,
         popularity_index |-> t[i].popularity_index]]

---------------------------------------------------------------------------
(* Helpers *)

Range(s) == {s[i] : i \in 1..Len(s)}

Min(S) == CHOOSE x \in S : \A y \in S : x <= y
Max(S) == CHOOSE x \in S : \A y \in S : x >= y

\* str comparison of Python: lexicographic on code points
LexLess(a, b) ==
    \E k \in 1..(Len(a) + 1) :
        /\ \A j \in 1..(k - 1) : j <= Len(b) /\ a[j] = b[j]
        /\ k <= Len(b)
        /\ (k = Len(a) + 1 \/ a[k] < b[k])

\* Series.unique(): the distinct values in order of first appearance
RECURSIVE Unique(_)
Unique(s) ==
    IF s = <<>> THEN <<>>
    ELSE LET init == Unique(SubSeq(s, 1, Len(s) - 1))
             x == s[Len(s)]
         IN IF x \in Range(init) THEN init ELSE Append(init, x)

\* sorted(list of str): ascending, by insertion into the sorted prefix
RECURSIVE Sorted(_)
Sorted(s) ==
    IF s = <<>> THEN <<>>
    ELSE LET init == Sorted(SubSeq(s, 1, Len(s) - 1))
             x == s[Len(s)]
             k == Cardinality({i \in 1..Len(init) : ~LexLess(x, init[i])})
         IN SubSeq(init, 1, k) \o <<x>> \o SubSeq(init, k + 1, Len(init))

Column(frame, col) == [i \in 1..Len(frame) |-> frame[i][col]]

RECURSIVE SumSeq(_)
SumSeq(s) == IF s = <<>> THEN 0 ELSE s[1] + SumSeq(Tail(s))

\* Series.sum(): 0 for an empty column
Sum(frame, col) == SumSeq(Column(frame, col))

\* Mean giving 0 for an empty column
MeanZeroIfEmpty(frame, col) ==
    [num |-> Sum(frame, col), den |-> IF frame = <<>> THEN 1 ELSE Len(frame)]

\* Series.mean(): the fraction sum/count; 0/0 (NaN) for an empty column
Mean(frame, col) == [num |-> Sum(frame, col), den |-> Len(frame)]

IsNaN(q) == q.den = 0

\* float subtraction a - b; NaN if either operand is NaN
Minus(a, b) ==
    IF IsNaN(a) \/ IsNaN(b) THEN [num |-> 0, den |-> 0]
    ELSE [num |-> a.num * b.den - b.num * a.den, den |-> a.den * b.den]

\* the integer nearest to a/b (b > 0), ties to the even one
RoundDiv(a, b) ==
    LET q == a \div b
        r == a - q * b
    IN IF 2 * r < b THEN q
       ELSE IF 2 * r > b THEN q + 1
       ELSE IF q % 2 = 0 THEN q ELSE q + 1

\* format(x, ".2f"): "nan" for NaN, else x rounded to hundredths
Fmt2(q) ==
    IF IsNaN(q) THEN [nan |-> TRUE, cents |-> 0]
    ELSE [nan |-> FALSE, cents |-> RoundDiv(100 * q.num, q.den)]

None == <<>>
Some(x) == <<x>>

---------------------------------------------------------------------------
(* The data source: init_connection, load_data, load_category_summary *)

NoEntry == [hit |-> FALSE, ok |-> FALSE, value |-> <<>>]

\* init_connection() under st.cache_resource: the first call connects (up says
\* whether pyodbc.connect succeeds) and its result, the connection or None,
\* is what every later call returns
init_connection(up) ==
    IF conn_cache.hit THEN conn_cache
    ELSE [hit |-> TRUE, ok |-> up, value |-> <<>>]

\* load_data without the test of the connection
load_data_unchecked(up) ==
    IF data_cache.hit THEN data_cache
    ELSE [hit |-> TRUE, ok |-> TRUE, value |-> MakeFrame(db)]

\* load_data() under st.cache_data: SELECT * FROM products when there is a
\* connection, None (ok = FALSE) when there is none; the result is cached
load_data(up) ==
    IF data_cache.hit THEN data_cache
    ELSE IF init_connection(up).ok
         THEN [hit |-> TRUE, ok |-> TRUE, value |-> MakeFrame(db)]
         ELSE [hit |-> TRUE, ok |-> FALSE, value |-> <<>>]

\* load_category_summary() under st.cache_data; only the fact that the
\* summary was loaded is kept, its rows feed three bar charts
load_category_summary(up) ==
    IF summary_cache.hit THEN summary_cache
    ELSE [hit |-> TRUE, ok |-> init_connection(up).ok, value |-> <<>>]

---------------------------------------------------------------------------
(* The sidebar *)

\* Categories without sorted()
CategoriesUnsorted(df) == <<All>> \o Unique(Column(df, "category"))

\* ['All'] + sorted(df['category'].unique().tolist())
Categories(df) == <<All>> \o Sorted(Unique(Column(df, "category")))

ColMin(df, col) == Min(Range(Column(df, col)))
ColMax(df, col) == Max(Range(Column(df, col)))

\* the positions of the rating slider a user is taken to choose among
RatingStops == {RatingMin, RatingDefaultLo, RatingMax}

\* what the widgets return on the first run: the first option of the
\* selectbox, the whole price range, the rating range (3.0, 5.0)
DefaultWidgets(df) ==
    [selected_category |-> Categories(df)[1],
     min_price |-> ColMin(df, "price"), max_price |-> ColMax(df, "price"),
     min_rating |-> RatingDefaultLo, max_rating |-> RatingDefaultHi]

---------------------------------------------------------------------------
(* Apply filters *)

\* filtered_df[filtered_df['category'] == selected_category], when the
\* selection is not 'All'
CategoryFilter(frame, w) ==
    IF w.selected_category # All
    THEN SelectSeq(frame, LAMBDA r : r.category = w.selected_category)
    ELSE frame

\* RangeFilter with the test of the upper price bound turned round
RangeFilterMaxReversed(frame, w) ==
    SelectSeq(frame, LAMBDA r :
        /\ r.price >= w.min_price
        /\ r.price >= w.max_price
        /\ r.rating >= w.min_rating
        /\ r.rating <= w.max_rating)

\* RangeFilter with the upper price bound excluded
RangeFilterStrict(frame, w) ==
    SelectSeq(frame, LAMBDA r :
        /\ r.price >= w.min_price
        /\ r.price < w.max_price
        /\ r.rating >= w.min_rating
        /\ r.rating <= w.max_rating)

\* the boolean mask of the price and rating ranges
RangeFilter(frame, w) ==
    SelectSeq(frame, LAMBDA r :
        /\ r.price >= w.min_price
        /\ r.price <= w.max_price
        /\ r.rating >= w.min_rating
        /\ r.rating <= w.max_rating)

\* FilterInput going on from the frame the previous run filtered
FilterInputPrevious(df, previous) == IF passes = 0 THEN df ELSE previous

\* filtered_df = df.copy(): the filter starts from the loaded frame, whatever
\* the previous run left in filtered_df
FilterInput(df, previous) == df

\* ApplyFilters with the range mask taken from the unfiltered frame and used
\* by position on the category's rows
ApplyFiltersMisaligned(frame, w) ==
    LET rows == CategoryFilter(frame, w)
        keep == {i \in 1..Len(rows) : RangeFilter(<<frame[i]>>, w) # <<>>}
    IN [k \in 1..Cardinality(keep) |->
           rows[CHOOSE i \in keep : Cardinality({j \in keep : j <= i}) = k]]

ApplyFilters(frame, w) == RangeFilter(CategoryFilter(frame, w), w)

---------------------------------------------------------------------------
(* KPI metrics *)

\* Delta shown whatever the category selector
DeltaAlways(w, x) == Some(x)

\* the delta of every metric: the f-string when a category is selected, else None
Delta(w, x) == IF w.selected_category # All THEN Some(x) ELSE None

\* st.metric("Total Products"): value len(filtered_df), delta len(filtered_df) - len(df)
TotalProducts(df, filtered, w) ==
    [value |-> Len(filtered), delta |-> Delta(w, Len(filtered) - Len(df))]

\* AveragePrice with the mean taken over df
AveragePriceOfTable(df, filtered, w) ==
    LET avg_price == Mean(df, "price")
    IN [value |-> Fmt2(avg_price),
        delta |-> Delta(w, Fmt2(Minus(avg_price, Mean(df, "price"))))]

\* st.metric("Average Price"): value avg_price to two decimals, delta
\* avg_price - df['price'].mean() to two decimals
AveragePrice(df, filtered, w) ==
    LET avg_price == Mean(filtered, "price")
    IN [value |-> Fmt2(avg_price),
        delta |-> Delta(w, Fmt2(Minus(avg_price, Mean(df, "price"))))]

\* st.metric("Average Rating")
AverageRating(df, filtered, w) ==
    LET avg_rating == Mean(filtered, "rating")
    IN [value |-> Fmt2(avg_rating),
        delta |-> Delta(w, Fmt2(Minus(avg_rating, Mean(df, "rating"))))]

\* st.metric("Total Reviews"): value the sum of review_count, delta the
\* difference to the sum over df
TotalReviews(df, filtered, w) ==
    LET total_reviews == Sum(filtered, "review_count")
    IN [value |-> total_reviews,
        delta |-> Delta(w, total_reviews - Sum(df, "review_count"))]

KpiMetrics(df, filtered, w) ==
    [products |-> TotalProducts(df, filtered, w),
     price |-> AveragePrice(df, filtered, w),
     rating |-> AverageRating(df, filtered, w),
     reviews |-> TotalReviews(df, filtered, w)]

NoMetrics == <<>>

---------------------------------------------------------------------------
(* Top performing products *)

\* FirstLargest taking the last of the rows that hold the largest value
LastLargest(frame, col) ==
    Max({i \in 1..Len(frame) : \A j \in 1..Len(frame) : frame[j][col] <= frame[i][col]})

\* the position nlargest(keep='first') takes next: the first row holding the
\* largest value of the column
FirstLargest(frame, col) ==
    Min({i \in 1..Len(frame) : \A j \in 1..Len(frame) : frame[j][col] <= frame[i][col]})

RemoveAt(s, i) == SubSeq(s, 1, i - 1) \o SubSeq(s, i + 1, Len(s))

\* DataFrame.nlargest(n, col) as pandas documents it for the default
\* keep='first': the n rows with the largest values of col, in descending
\* order, the first occurrences of equal values taken first
RECURSIVE nlargest(_, _, _)
nlargest(frame, n, col) ==
    IF n = 0 \/ frame = <<>> THEN <<>>
    ELSE LET i == FirstLargest(frame, col)
         IN <<frame[i]>> \o nlargest(RemoveAt(frame, i), n - 1, col)

\* frame[[...]]: the listed columns, under the rows' index labels
Project(frame, cols) ==
    [i \in 1..Len(frame) |-> [c \in cols \cup {"idx"} |-> frame[i][c]]]

best_rated(filtered) ==
    Project(nlargest(filtered, TopN, "rating"),
            {"name", "category", "price", "rating", "review_count"})

most_reviewed(filtered) ==
    Project(nlargest(filtered, TopN, "review_count"),
            {"name", "category", "price", "rating", "review_count"})

best_value(filtered) ==
    Project(nlargest(filtered, TopN, "value_score"),
            {"name", "category", "price", "rating", "value_score"})

most_popular(filtered) ==
    Project(nlargest(filtered, TopN, "popularity_index"),
            {"name", "category", "price", "rating", "popularity_index"})

NoTabs ==
    [best_rated |-> None, most_reviewed |-> None, best_value |-> None,
     most_popular |-> None]

TopProducts(filtered) ==
    [best_rated |-> Some(best_rated(filtered)),
     most_reviewed |-> Some(most_reviewed(filtered)),
     best_value |-> Some(best_value(filtered)),
     most_popular |-> Some(most_popular(filtered))]

---------------------------------------------------------------------------
(* main(): one run of the script *)

\* if df is None
df_is_None(data) == ~data.ok

\* the headers and widgets a complete run puts on the page, in order; the
\* category charts are drawn only when the summary was loaded
Page(summary) ==
    <<"filters", "kpi", "product_analysis">>
    \o (IF summary.ok THEN <<"category_performance">> ELSE <<>>)
    \o <<"top_products", "raw_data", "csv_download">>

\* One run.  request is None on the first run, when the widgets return their
\* defaults, and otherwise the values the user has set them to.  up is the
\* outcome of pyodbc.connect, read only if the connection is not cached yet.
Main(request, up) ==
    LET data == load_data(up)
    IN /\ conn_cache' = init_connection(up)
       /\ data_cache' = data
       /\ db' = db
       /\ IF df_is_None(data)
          THEN \* st.error("Failed to load data from database"); return
               /\ status' = "error"
               /\ sections' = <<>>
               /\ categories' = <<>>
               /\ filtered_df' = <<>>
               /\ passes' = 0
               /\ metrics' = NoMetrics
               /\ tabs' = NoTabs
               /\ UNCHANGED <<summary_cache, widgets>>
          ELSE LET df == data.value
                   summary == load_category_summary(up)
                   w == IF request = None THEN DefaultWidgets(df) ELSE request[1]
                   filtered == ApplyFilters(FilterInput(df, filtered_df), w)
               IN /\ summary_cache' = summary
                  /\ categories' = Categories(df)
                  /\ widgets' = Some(w)
                  /\ filtered_df' = filtered
                  /\ passes' = 1
                  /\ metrics' = Some(KpiMetrics(df, filtered, w))
                  /\ tabs' = TopProducts(filtered)
                  /\ sections' = Page(summary)
                  /\ status' = "ok"

---------------------------------------------------------------------------
(* The session *)

Init ==
    /\ db \in Tables(Products, 1, MaxRows)
    /\ conn_cache = NoEntry
    /\ data_cache = NoEntry
    /\ summary_cache = NoEntry
    /\ widgets = None
    /\ status = "none"
    /\ categories = <<>>
    /\ filtered_df = <<>>
    /\ passes = 0
    /\ metrics = NoMetrics
    /\ tabs = NoTabs
    /\ sections = <<>>

\* the page is opened: the first run of the script
Open ==
    /\ status = "none"
    /\ \E up \in BOOLEAN : Main(None, up)

\* the user picks an option of the category selectbox
SelectCategory ==
    /\ status = "ok"
    /\ \E c \in Range(categories) :
         Main(Some([widgets[1] EXCEPT !.selected_category = c]), FALSE)

\* the user moves the price slider, within the prices of the table
SlidePrice ==
    /\ status = "ok"
    /\ LET df == data_cache.value
       IN \E lo, hi \in ColMin(df, "price")..ColMax(df, "price") :
            /\ lo <= hi
            /\ Main(Some([widgets[1] EXCEPT !.min_price = lo, !.max_price = hi]), FALSE)

\* the user moves the rating slider
SlideRating ==
    /\ status = "ok"
    /\ \E lo, hi \in RatingStops :
         /\ lo <= hi
         /\ Main(Some([widgets[1] EXCEPT !.min_rating = lo, !.max_rating = hi]), FALSE)

\* the user reruns the script without touching a widget
Rerun ==
    /\ status # "none"
    /\ Main(widgets, FALSE)

Next == Open \/ SelectCategory \/ SlidePrice \/ SlideRating \/ Rerun

Spec == Init /\ [][Next]_vars

---------------------------------------------------------------------------
(* The filter step on its own: any frame, any predicate *)

\* the rows drawn for the frame to filter
FilterRows == {p \in Products : p.review_count = 1}

\* the predicates handed to the filter step, inverted ranges included
Predicates ==
    [selected_category : {All} \cup Cats,
     min_price : Prices, max_price : Prices,
     min_rating : RatingStops, max_rating : RatingStops]

InitFilter ==
    /\ db \in Tables(FilterRows, 0, MaxRows)
    /\ conn_cache = [hit |-> TRUE, ok |-> TRUE, value |-> <<>>]
    /\ data_cache = [hit |-> TRUE, ok |-> TRUE, value |-> MakeFrame(db)]
    /\ summary_cache = NoEntry
    /\ widgets = None
    /\ status = "none"
    /\ categories = <<>>
    /\ filtered_df = <<>>
    /\ passes = 0
    /\ metrics = NoMetrics
    /\ tabs = NoTabs
    /\ sections = <<>>

\* the filter step of main() on the loaded frame
Filter ==
    /\ passes = 0
    /\ \E w \in Predicates :
         /\ widgets' = Some(w)
         /\ filtered_df' = ApplyFilters(FilterInput(data_cache.value, filtered_df), w)
    /\ passes' = 1
    /\ UNCHANGED <<db, conn_cache, data_cache, summary_cache, status,
                   categories, metrics, tabs, sections>>

\* the same filter step on its own result
FilterAgain ==
    /\ passes = 1
    /\ filtered_df' = ApplyFilters(filtered_df, widgets[1])
    /\ passes' = 2
    /\ UNCHANGED <<db, conn_cache, data_cache, summary_cache, widgets, status,
                   categories, metrics, tabs, sections>>

NextFilter == Filter \/ FilterAgain

SpecFilter == InitFilter /\ [][NextFilter]_vars

---------------------------------------------------------------------------
(* The four top-10 tables on their own: frames longer than ten rows *)

\* two products, ranked differently by the four columns
TopRows ==
    {[name |-> <<80>>, category |-> Tools, price |-> 1, rating |-> 5,
      review_count |-> 1, value_score |-> 1, popularity_index |-> 2],
     [name |-> <<81>>, category |-> Toys, price |-> 2, rating |-> 4,
      review_count |-> 3, value_score |-> 2, popularity_index |-> 2]}

InitTopN ==
    /\ db \in Tables(TopRows, 0, MaxTopRows)
    /\ conn_cache = [hit |-> TRUE, ok |-> TRUE, value |-> <<>>]
    /\ data_cache = [hit |-> TRUE, ok |-> TRUE, value |-> MakeFrame(db)]
    /\ summary_cache = NoEntry
    /\ widgets = None
    /\ status = "none"
    /\ categories = <<>>
    /\ filtered_df = MakeFrame(db)
    /\ passes = 0
    /\ metrics = NoMetrics
    /\ tabs = NoTabs
    /\ sections = <<>>

TabFrame == <<db, conn_cache, data_cache, summary_cache, widgets, status,
              categories, filtered_df, passes, metrics, sections>>

BestRated ==
    /\ tabs = NoTabs
    /\ tabs' = [tabs EXCEPT !.best_rated = Some(best_rated(filtered_df))]
    /\ UNCHANGED TabFrame

MostReviewed ==
    /\ tabs = NoTabs
    /\ tabs' = [tabs EXCEPT !.most_reviewed = Some(most_reviewed(filtered_df))]
    /\ UNCHANGED TabFrame

BestValue ==
    /\ tabs = NoTabs
    /\ tabs' = [tabs EXCEPT !.best_value = Some(best_value(filtered_df))]
    /\ UNCHANGED TabFrame

MostPopular ==
    /\ tabs = NoTabs
    /\ tabs' = [tabs EXCEPT !.most_popular = Some(most_popular(filtered_df))]
    /\ UNCHANGED TabFrame

NextTopN == BestRated \/ MostReviewed \/ BestValue \/ MostPopular

SpecTopN == InitTopN /\ [][NextTopN]_vars

---------------------------------------------------------------------------
(* Properties of the filter step *)

\* what the predicate w asks of a row
Qualifies(r, w) ==
    /\ (w.selected_category = All \/ r.category = w.selected_category)
    /\ w.min_price <= r.price /\ r.price <= w.max_price
    /\ w.min_rating <= r.rating /\ r.rating <= w.max_rating

\* F is exactly the subsequence of R of the rows that qualify under w
IsFilterOf(F, R, w) ==
    /\ \A i \in 1..Len(F) : F[i] \in Range(R)
    /\ \A i, j \in 1..Len(F) : i < j => F[i].idx < F[j].idx
    /\ \A k \in 1..Len(R) : R[k] \in Range(F) <=> Qualifies(R[k], w)

\* C1: the filter step keeps exactly the rows of R that satisfy the category
\* test and both range tests, each once and in the order of R; an empty R or
\* an inverted range gives the empty frame.
C1_FilterExact ==
    passes = 1 => IsFilterOf(filtered_df, data_cache.value, widgets[1])

\* a frame of two rows or more of which the filter, under a chosen category,
\* kept some rows and dropped others
C1_Witness ==
    /\ passes = 1
    /\ widgets[1].selected_category # All
    /\ Len(data_cache.value) >= 2
    /\ filtered_df # <<>>
    /\ Len(filtered_df) < Len(data_cache.value)

\* the predicates that differ from w in one bound of one range, made wider
Wider(w) ==
    {v \in [selected_category : {w.selected_category},
            min_price : (Min(Prices) - 1)..w.min_price,
            max_price : w.max_price..(Max(Prices) + 1),
            min_rating : RatingMin..w.min_rating,
            max_rating : w.max_rating..RatingMax] :
        Cardinality({f \in {"min_price", "max_price", "min_rating", "max_rating"} :
                        v[f] # w[f]}) = 1}

\* C7: widening one bound of the price or rating range never loses a row:
\* every row the filter kept under w is kept under each wider predicate.
C7_Monotone ==
    passes = 1 =>
        \A v \in Wider(widgets[1]) :
            Range(filtered_df) \subseteq Range(ApplyFilters(data_cache.value, v))

\* a non-empty result to which some wider predicate adds a row
C7_Witness ==
    /\ passes = 1
    /\ filtered_df # <<>>
    /\ \E v \in Wider(widgets[1]) :
         Len(ApplyFilters(data_cache.value, v)) > Len(filtered_df)

\* C8: filtering the filtered frame again with the same predicate changes
\* nothing, neither the rows nor their order.
C8_Idempotent ==
    [][(passes = 1 /\ passes' = 2) => filtered_df' = filtered_df]_vars

\* the filter was applied a second time to a result that had kept some rows
\* and dropped others
C8_Witness ==
    /\ passes = 2
    /\ filtered_df # <<>>
    /\ Len(filtered_df) < Len(data_cache.value)

---------------------------------------------------------------------------
(* Properties of the top-10 tables *)

\* the position in F of the row with index label x
PosIn(F, x) == CHOOSE k \in 1..Len(F) : F[k].idx = x

\* T is the top-N projection of F under the ranking column key
IsTopOf(T, F, key) ==
    /\ Len(T) = (IF Len(F) < 10 THEN Len(F) ELSE 10)
    \* every row of T is a row of F, with F's values
    /\ \A i \in 1..Len(T) :
         \E k \in 1..Len(F) :
             /\ F[k].idx = T[i].idx
             /\ \A c \in DOMAIN T[i] : T[i][c] = F[k][c]
    \* descending, equal values in their order in F; so no row twice
    /\ \A i, j \in 1..Len(T) :
         i < j => \/ T[i][key] > T[j][key]
                  \/ /\ T[i][key] = T[j][key]
                     /\ PosIn(F, T[i].idx) < PosIn(F, T[j].idx)
    \* a row left out ranks below every row kept: smaller, or equal and later
    /\ \A k \in 1..Len(F) :
         (\A i \in 1..Len(T) : T[i].idx # F[k].idx) =>
             \A i \in 1..Len(T) :
                 \/ T[i][key] > F[k][key]
                 \/ /\ T[i][key] = F[k][key]
                    /\ PosIn(F, T[i].idx) < k

TabIsTop(tab, key) == tab # None => IsTopOf(tab[1], filtered_df, key)

\* C2: each of the four tables holds min(|F|, 10) rows of F in descending
\* order of its ranking column, rows of equal rank in their order in F, and
\* at the cut after the tenth row the earlier of equally ranked rows is kept;
\* a frame of fewer than ten rows is returned whole.
C2_TopN ==
    /\ TabIsTop(tabs.best_rated, "rating")
    /\ TabIsTop(tabs.most_reviewed, "review_count")
    /\ TabIsTop(tabs.best_value, "value_score")
    /\ TabIsTop(tabs.most_popular, "popularity_index")

\* more than ten rows, the tenth best-rated row and a row left out rated
\* alike, and a row rated lower standing before them in F
C2_Witness ==
    /\ tabs.best_rated # None
    /\ Len(filtered_df) > 10
    /\ Len(tabs.best_rated[1]) = 10
    /\ \E k \in 1..Len(filtered_df) :
         /\ \A i \in 1..10 : tabs.best_rated[1][i].idx # filtered_df[k].idx
         /\ filtered_df[k].rating = tabs.best_rated[1][10].rating
    /\ filtered_df[1].rating < tabs.best_rated[1][1].rating

---------------------------------------------------------------------------
(* Properties of a run of the script *)

\* the sum of a column, taken from the last row backwards
RECURSIVE Total(_, _)
Total(frame, col) ==
    IF frame = <<>> THEN 0
    ELSE Total(SubSeq(frame, 1, Len(frame) - 1), col) + frame[Len(frame)][col]

Abs(x) == IF x < 0 THEN -x ELSE x

\* shown is num/den to two decimals: a number, within half a hundredth
ShowsFraction(shown, num, den) ==
    /\ ~shown.nan
    /\ 2 * Abs(100 * num - shown.cents * den) <= den

\* shown is the mean of col over F
ShowsMean(shown, F, col) == ShowsFraction(shown, Total(F, col), Len(F))

\* shown is the mean of col over F minus its mean over R
ShowsMeanDelta(shown, F, R, col) ==
    ShowsFraction(shown, Total(F, col) * Len(R) - Total(R, col) * Len(F),
                  Len(F) * Len(R))

ShowsNaN(shown) == shown.nan

CategoryChosen == widgets[1].selected_category # All

\* the run reached the KPI section with an empty filtered frame
EmptyRun == status = "ok" /\ filtered_df = <<>>

\* the run reached the KPI section with a non-empty filtered frame
NonEmptyRun == status = "ok" /\ filtered_df # <<>>

C4_DeltasAlways ==
    NonEmptyRun =>
        LET F == filtered_df
            R == data_cache.value
            m == metrics[1]
        IN /\ ShowsMean(m.price.value, F, "price")
           /\ ShowsMean(m.rating.value, F, "rating")
           /\ m.reviews.value = Total(F, "review_count")
           /\ m.price.delta # None
           /\ ShowsMeanDelta(m.price.delta[1], F, R, "price")
           /\ m.rating.delta # None
           /\ ShowsMeanDelta(m.rating.delta[1], F, R, "rating")
           /\ m.reviews.delta
                = Some(Total(F, "review_count") - Total(R, "review_count"))

\* C4, amended: the three values are as stated (the means to two decimals);
\* the three deltas are as stated when a category is chosen, and absent when
\* the category selector is "All".
C4_DeltasWhenCategoryChosen ==
    NonEmptyRun =>
        LET F == filtered_df
            R == data_cache.value
            m == metrics[1]
        IN /\ ShowsMean(m.price.value, F, "price")
           /\ ShowsMean(m.rating.value, F, "rating")
           /\ m.reviews.value = Total(F, "review_count")
           /\ CategoryChosen =>
                 /\ m.price.delta # None
                 /\ ShowsMeanDelta(m.price.delta[1], F, R, "price")
                 /\ m.rating.delta # None
                 /\ ShowsMeanDelta(m.rating.delta[1], F, R, "rating")
                 /\ m.reviews.delta
                      = Some(Total(F, "review_count") - Total(R, "review_count"))
           /\ ~CategoryChosen =>
                 /\ m.price.delta = None
                 /\ m.rating.delta = None
                 /\ m.reviews.delta = None

\* a chosen category whose rows differ from the table in mean price, in mean
\* rating and in review sum
C4_Witness ==
    /\ NonEmptyRun
    /\ CategoryChosen
    /\ Len(filtered_df) < Len(data_cache.value)
    /\ metrics[1].price.delta[1].cents # 0
    /\ metrics[1].rating.delta[1].cents # 0
    /\ metrics[1].reviews.delta[1] # 0

\* C5: the count KPI shows |F|; its delta is |F| - |R| when the category
\* selector is not "All" and is absent when it is "All", whatever the ranges.
C5_CountDelta ==
    status = "ok" =>
        /\ metrics[1].products.value = Len(filtered_df)
        /\ CategoryChosen =>
              metrics[1].products.delta
                = Some(Len(filtered_df) - Len(data_cache.value))
        /\ ~CategoryChosen => metrics[1].products.delta = None

\* category "All", a price range that drops rows, and no delta
C5_Witness ==
    /\ status = "ok"
    /\ ~CategoryChosen
    /\ widgets[1].min_price > ColMin(data_cache.value, "price")
    /\ Len(filtered_df) < Len(data_cache.value)
    /\ filtered_df # <<>>
    /\ metrics[1].products.delta = None

\* C6: when the connection cannot be made, load_data returns no table, the
\* run ends showing the load error, and nothing after the load is done: no
\* widget, no filter, no KPI, no chart, no top-10 table, no export, and the
\* category summary is not loaded.
C6_LoadFailureStops ==
    (conn_cache.hit /\ ~conn_cache.ok) =>
        /\ data_cache.hit /\ ~data_cache.ok
        /\ status = "error"
        /\ sections = <<>>
        /\ widgets = None
        /\ categories = <<>>
        /\ filtered_df = <<>>
        /\ metrics = NoMetrics
        /\ tabs = NoTabs
        /\ ~summary_cache.hit

\* the load has failed
C6_Witness ==
    /\ conn_cache.hit /\ ~conn_cache.ok
    /\ data_cache.hit /\ ~data_cache.ok
    /\ status = "error"

\* C9: the selectbox options are "All" followed by the categories of the
\* table, each once, in ascending lexicographic order.
C9_Categories ==
    status = "ok" =>
        LET rest == Tail(categories)
            present == {data_cache.value[i].category : i \in 1..Len(data_cache.value)}
        IN /\ categories[1] = All
           /\ Range(rest) = present
           /\ \A i, j \in 1..Len(rest) : i < j => LexLess(rest[i], rest[j])

\* a table whose first category sorts after its second
C9_Witness ==
    /\ status = "ok"
    /\ Len(categories) = 3
    /\ LexLess(data_cache.value[2].category, data_cache.value[1].category)

\* C10: after every run the loaded table is the table of the database,
\* unchanged, and the filtered frame is the filter of that table under the
\* widgets' current values, whatever the earlier runs filtered.
C10_FreshView ==
    status = "ok" =>
        /\ data_cache.value = MakeFrame(db)
        /\ IsFilterOf(filtered_df, MakeFrame(db), widgets[1])

\* the whole table on the page, with a row rated below the rating range of
\* the first run: a later run brought back what an earlier one had dropped
C10_Witness ==
    /\ status = "ok"
    /\ filtered_df = MakeFrame(db)
    /\ \E i \in 1..Len(filtered_df) : filtered_df[i].rating < RatingDefaultLo

=============================================================================
